---- MODULE Spec2Model ----
(***************************************************************************)
(* Gesture-driven choreography engine of EG-Christmas.                     *)
(*                                                                         *)
(*   HandController.tsx  the capture pipeline: recognizer loading, the     *)
(*                       enable/disable effect, the webcam stream, the     *)
(*                       throttled predict() loop and the pinch debounce.  *)
(*   App.tsx             the mode controller: handleHandUpdate, the 'h'    *)
(*                       key toggle and the photo upload.                  *)
(*                                                                         *)
(* Coordinates are in hundredths of the normalised image unit, so that the *)
(* landmark arithmetic of predict() is exact integer arithmetic.  Time is  *)
(* in milliseconds.                                                        *)
(*                                                                         *)
(* React state is kept with its queued updates applied (mode, focusId);    *)
(* what the memoised handler closed over at the last render is kept        *)
(* separately in onHandUpdateRef and refreshed by a render.                *)
(***************************************************************************)
EXTENDS Integers, Sequences, FiniteSets, TLC

VARIABLES
    loaded,              \* HandController: const [loaded, setLoaded]
    handControlEnabled,  \* App: const [handControlEnabled, ...]
    effects,             \* runs of the enabled branch of the effect: isActive, stream
    srcObject,           \* videoRef.current.srcObject: 0 or the index of the run whose stream it is
    onloadeddata,        \* videoRef.current.onloadeddata: 0 or the index of the run that set it
    readyState,          \* videoRef.current.readyState
    rafScheduled,        \* an animation frame for predict is pending (requestRef)
    elapsed,             \* Date.now() - lastPredictionTime.current, saturated at PREDICTION_INTERVAL
    pinchFrameCount,     \* pinchFrameCount.current
    mode,                \* App: const [mode, setMode]
    focusId,             \* App: const [focusId, setFocusId]
    photos,              \* App: const [photos, setPhotos], as the sequence of photo ids
    gestureDisplay,      \* App: const [gestureDisplay, setGestureDisplay]
    handStateRef,        \* App: handStateRef.current
    onHandUpdateRef,     \* what the handler in onHandUpdateRef.current closed over
    emitted,             \* the HandSignals published by the last step, in order
    results,             \* what recognizeForVideo returned (or threw) in the last step, if called
    qualRun,             \* history: consecutive qualifying ticks since the counter was 0
    runFromFeature,      \* history: that run began in FEATURE, as the handler saw it too
    sinceRecognize,      \* history: ms since recognizeForVideo was last called, saturated
    recognizeGap,        \* ms between the recognizeForVideo call of the last step and the call before it,
                         \* saturated; PREDICTION_INTERVAL if the last step made no call
    shapeCall,           \* a call of getShapePositions: its arguments, i, positions, and where it is
    lerpRun,             \* one axis of positions[] of an instance, and the target it is lerped to
    slotCalls,           \* two calls of getPhotoSlotsForShape with the same arguments, and what they returned
    debounce,            \* the pinch debounce of predict run on a sequence of results, with its history
    ornaments,           \* StructureOrnaments: the three instanced batches during the loop of useFrame
    particles            \* MagicParticles / StructureOrnaments: props, the useMemo of shapesCache, the target read

engineVars == <<loaded, handControlEnabled, effects, srcObject, onloadeddata, readyState,
          rafScheduled, elapsed, pinchFrameCount, mode, focusId, photos,
          gestureDisplay, handStateRef, onHandUpdateRef, emitted, results,
          qualRun, runFromFeature, sinceRecognize, recognizeGap>>

\* the geometry utilities, the scene components and the parts of the pipeline
\* that are followed on their own: the gesture pipeline neither reads nor
\* writes them
sceneVars == <<shapeCall, lerpRun, particles, slotCalls, debounce, ornaments>>

vars == <<engineVars, sceneVars>>

-----------------------------------------------------------------------------
(* Program constants *)

PINCH_THRESHOLD_FRAMES == 5
PREDICTION_INTERVAL == 60
MAX_PHOTOS == 8
DEFAULT_PHOTOS == <<1, 2, 3, 4>>
Null == 0

AppMode == {"SCATTER", "FEATURE", "FOCUS"}

(* Bounds of the model *)

MaxEnables == 2

\* milliseconds between two animation frames
FrameDts == {30, 60}
\* number of files of one upload
FileCounts == {5}

-----------------------------------------------------------------------------
(* Landmarks and the inference results *)

Pt(px, py) == [x |-> px, y |-> py]

\* thumb and index tips together, middle, ring and pinky curled
PinchPose ==
    [wrist |-> Pt(50, 90), thumbTip |-> Pt(48, 50), indexTip |-> Pt(52, 50),
     middleTip |-> Pt(50, 70), middleMCP |-> Pt(50, 60),
     ringTip |-> Pt(54, 72), ringMCP |-> Pt(55, 62),
     pinkyTip |-> Pt(58, 74), pinkyMCP |-> Pt(60, 65)]

\* all five fingers stretched out
OpenPose ==
    [wrist |-> Pt(40, 80), thumbTip |-> Pt(20, 60), indexTip |-> Pt(34, 30),
     middleTip |-> Pt(40, 20), middleMCP |-> Pt(40, 50),
     ringTip |-> Pt(46, 24), ringMCP |-> Pt(45, 52),
     pinkyTip |-> Pt(54, 32), pinkyMCP |-> Pt(50, 55)]

\* thumb and index tips together, the other three fingers stretched out
OkPose ==
    [wrist |-> Pt(40, 80), thumbTip |-> Pt(30, 46), indexTip |-> Pt(34, 46),
     middleTip |-> Pt(40, 20), middleMCP |-> Pt(40, 50),
     ringTip |-> Pt(46, 24), ringMCP |-> Pt(45, 52),
     pinkyTip |-> Pt(54, 32), pinkyMCP |-> Pt(50, 55)]

\* the other three fingers curled, thumb and index tips a little too far apart
LoosePose ==
    [wrist |-> Pt(50, 90), thumbTip |-> Pt(44, 50), indexTip |-> Pt(56, 50),
     middleTip |-> Pt(50, 70), middleMCP |-> Pt(50, 60),
     ringTip |-> Pt(54, 72), ringMCP |-> Pt(55, 62),
     pinkyTip |-> Pt(58, 74), pinkyMCP |-> Pt(60, 65)]

Poses == {PinchPose, OpenPose, OkPose, LoosePose}

\* one hand, with the category name of the top gesture
Hand(p, c) == [kind |-> "hand", landmarks |-> p, categoryName |-> c]

\* results of recognizeForVideo: a throw, no hand, or one hand
Results ==
    {[kind |-> "throw"], [kind |-> "none"],
     Hand(PinchPose, "None"), Hand(PinchPose, "Closed_Fist"), Hand(PinchPose, "Open_Palm"),
     Hand(OpenPose, "Open_Palm"), Hand(OpenPose, "None"),
     Hand(OkPose, "None"),
     Hand(LoosePose, "Closed_Fist")}

\* the square of getDistance, in squared hundredths
getDistance2(p1, p2) == (p1.x - p2.x) * (p1.x - p2.x) + (p1.y - p2.y) * (p1.y - p2.y)

\* getDistance(tip, wrist) < getDistance(mcp, wrist) * 1.2
isCurled(tip, mcp, wrist) == 25 * getDistance2(tip, wrist) < 36 * getDistance2(mcp, wrist)

areOthersCurled(l) ==
    /\ isCurled(l.middleTip, l.middleMCP, l.wrist)
    /\ isCurled(l.ringTip, l.ringMCP, l.wrist)
    /\ isCurled(l.pinkyTip, l.pinkyMCP, l.wrist)

\* tipDistance < 0.08
tipsClose(l) == getDistance2(l.thumbTip, l.indexTip) < 8 * 8

\* the condition of step D of predict
isQualifying(l) == tipsClose(l) /\ areOthersCurled(l)

-----------------------------------------------------------------------------
(* The pinch debounce *)

Max(a, b) == IF a >= b THEN a ELSE b
Min(a, b) == IF a <= b THEN a ELSE b

\* countFrame with a decay of 1 where the code has 2
countFrame_decayByOne(c, qualifying) == IF qualifying THEN c + 1 ELSE Max(0, c - 1)

\* step D: the counter after the frame has been counted
countFrame(c, qualifying) == IF qualifying THEN c + 1 ELSE Max(0, c - 2)

\* step E: whether the counter latches
isLatched(c) == c >= PINCH_THRESHOLD_FRAMES

\* clampCount without the assignment of PINCH_THRESHOLD_FRAMES + 2
clampCount_noClamp(c) == c

\* step E: the counter after the latch
clampCount(c) == IF isLatched(c) THEN PINCH_THRESHOLD_FRAMES + 2 ELSE c

-----------------------------------------------------------------------------
(* HandState *)

NeutralSignal ==
    [x |-> 0, y |-> 0, pinchX |-> 0, pinchY |-> 0,
     isPinching |-> FALSE, gesture |-> "None", active |-> FALSE]

\* signalOf without the override of the gesture label by 'Pinch'
signalOf_keepLabel(res, c) ==
    IF res.kind = "hand"
    THEN LET l == res.landmarks
         IN [x |-> (l.wrist.x - 50) * (-2),
             y |-> (l.wrist.y - 50) * (-2),
             pinchX |-> (l.thumbTip.x + l.indexTip.x - 100) * (-1),
             pinchY |-> (l.thumbTip.y + l.indexTip.y - 100) * (-1),
             isPinching |-> (IF isQualifying(l) THEN c + 1 ELSE Max(0, c - 2))
                               >= PINCH_THRESHOLD_FRAMES,
             gesture |-> res.categoryName,
             active |-> TRUE]
    ELSE [x |-> 0, y |-> 0, pinchX |-> 0, pinchY |-> 0,
          isPinching |-> FALSE, gesture |-> "None", active |-> FALSE]

\* the HandState predict builds from a result that did not throw, the counter being c
signalOf(res, c) ==
    IF res.kind = "hand"
    THEN LET l == res.landmarks
             latched == isLatched(countFrame(c, isQualifying(l)))
         IN [x |-> (l.wrist.x - 50) * (-2),
             y |-> (l.wrist.y - 50) * (-2),
             pinchX |-> (l.thumbTip.x + l.indexTip.x - 100) * (-1),
             pinchY |-> (l.thumbTip.y + l.indexTip.y - 100) * (-1),
             isPinching |-> latched,
             gesture |-> IF latched THEN "Pinch" ELSE res.categoryName,
             active |-> TRUE]
    ELSE NeutralSignal

\* pinchFrameCount.current after a result that did not throw
countAfter_noHandDecays(res, c) ==
    IF res.kind = "hand"
    THEN clampCount(countFrame(c, isQualifying(res.landmarks)))
    ELSE Max(0, c - 2)
countAfter(res, c) ==
    IF res.kind = "hand"
    THEN clampCount(countFrame(c, isQualifying(res.landmarks)))
    ELSE 0

-----------------------------------------------------------------------------
(* The mode controller *)

\* what a render of App hands to useCallback
Closure(en, m, ph) == [handControlEnabled |-> en, mode |-> m, photos |-> ph]

\* gestureBranch without the setFocusId(null) of the Open_Palm branch
gestureBranch_palmKeepsFocus(app, state) ==
    IF state.gesture = "Closed_Fist"
    THEN [mode |-> "FEATURE", focusId |-> Null]
    ELSE IF state.gesture = "Open_Palm"
         THEN [mode |-> "SCATTER", focusId |-> app.focusId]
         ELSE app

\* gestureBranch without the setFocusId(null) of the Closed_Fist branch
gestureBranch_fistKeepsFocus(app, state) ==
    IF state.gesture = "Closed_Fist"
    THEN [mode |-> "FEATURE", focusId |-> app.focusId]
    ELSE IF state.gesture = "Open_Palm"
         THEN [mode |-> "SCATTER", focusId |-> Null]
         ELSE app

\* the gesture branch of handleHandUpdate
gestureBranch(app, state) ==
    IF state.gesture = "Closed_Fist"
    THEN [mode |-> "FEATURE", focusId |-> Null]
    ELSE IF state.gesture = "Open_Palm"
         THEN [mode |-> "SCATTER", focusId |-> Null]
         ELSE app

\* pinchBranch with the setFocusId(randomId) but without the setMode(AppMode.FOCUS)
pinchBranch_keepsMode(cb, app, state) ==
    IF state.isPinching /\ cb.mode # "FOCUS" /\ Len(cb.photos) > 0
    THEN {[mode |-> app.mode, focusId |-> cb.photos[i]] : i \in 1..Len(cb.photos)}
    ELSE {app}

\* pinchBranch with an index that can run one past the end of photos (Math.round
\* for Math.floor): photos[photos.length] has no id
pinchBranch_indexPastEnd(cb, app, state) ==
    IF state.isPinching /\ cb.mode # "FOCUS" /\ Len(cb.photos) > 0
    THEN {[mode |-> "FOCUS", focusId |-> cb.photos[i]] : i \in 1..Len(cb.photos)}
         \cup {[mode |-> "FOCUS", focusId |-> Null]}
    ELSE {app}

\* the pinch branch of handleHandUpdate: the outcomes of the random pick
pinchBranch(cb, app, state) ==
    IF state.isPinching /\ cb.mode # "FOCUS" /\ Len(cb.photos) > 0
    THEN {[mode |-> "FOCUS", focusId |-> cb.photos[i]] : i \in 1..Len(cb.photos)}
    ELSE {app}

\* handleHandUpdate without the early return on !handControlEnabled
handleHandUpdate_ignoresEnabled(cb, app, state) ==
    pinchBranch(cb, gestureBranch(app, state), state)

\* the (mode, focusId) handleHandUpdate can leave, called with the closure cb
handleHandUpdate(cb, app, state) ==
    IF ~cb.handControlEnabled
    THEN {app}
    ELSE pinchBranch(cb, gestureBranch(app, state), state)

AppState == [mode |-> mode, focusId |-> focusId]

\* onHandUpdateRef.current(state)
Publish(cb, state) ==
    /\ handStateRef' = state
    /\ gestureDisplay' = state.gesture
    /\ \E out \in handleHandUpdate(cb, AppState, state) :
          /\ mode' = out.mode
          /\ focusId' = out.focusId

-----------------------------------------------------------------------------
(* The enable/disable effect of HandController *)

captureVars == <<effects, srcObject, onloadeddata, readyState, rafScheduled>>
appVars == <<mode, focusId, gestureDisplay, handStateRef>>
historyVars == <<qualRun, runFromFeature, sinceRecognize>>

\* the enabled branch: a new run of the effect, startWebcam() pending
startWebcam ==
    /\ effects' = Append(effects, [isActive |-> TRUE, stream |-> "pending"])
    /\ UNCHANGED <<srcObject, onloadeddata, readyState, rafScheduled>>

\* a stream after stream.getTracks().forEach(t => t.stop())
stopTracks(stream) == IF stream = "live" THEN "stopped" ELSE stream

\* the effects after the cleanup of run i: isActive = false, its stream stopped if it holds one
cleanupRun(i) ==
    [effects EXCEPT ![i] = [isActive |-> FALSE, stream |-> stopTracks(@.stream)]]

\* the stream the disabled branch finds in videoRef.current.srcObject is stopped
stopSrcObject(effs, src) ==
    IF src = 0 THEN effs ELSE [effs EXCEPT ![src].stream = stopTracks(@)]

\* disableCapture that leaves the stream attached and the animation frame requested
disableCapture_keepsRunning ==
    UNCHANGED <<effects, srcObject, onloadeddata, readyState, rafScheduled>>

\* the cleanup of the running effect followed by the disabled branch
\* (the video element is left without stream, the animation frame is cancelled)
disableCapture ==
    /\ effects' = IF Len(effects) > 0 /\ effects[Len(effects)].isActive
                  THEN cleanupRun(Len(effects))
                  ELSE stopSrcObject(effects, srcObject)
    /\ srcObject' = 0
    /\ onloadeddata' = 0
    /\ readyState' = 0
    /\ rafScheduled' = FALSE

\* the effect of [loaded, enabled] after a render with the values ld and en,
\* the handler of that render being cb
runEffect(ld, en, cb) ==
    IF ~ld
    THEN /\ UNCHANGED captureVars
         /\ UNCHANGED appVars
         /\ emitted' = <<>>
    ELSE IF en
         THEN /\ startWebcam
              /\ UNCHANGED appVars
              /\ emitted' = <<>>
         ELSE /\ disableCapture
              /\ Publish(cb, NeutralSignal)
              /\ emitted' = <<NeutralSignal>>

\* init() resolves: setLoaded(true), the render and the effect that follow
LoadRecognizer ==
    /\ UNCHANGED sceneVars
    /\ ~loaded
    /\ handControlEnabled => Len(effects) < MaxEnables
    /\ loaded' = TRUE
    /\ onHandUpdateRef' = Closure(handControlEnabled, mode, photos)
    /\ runEffect(TRUE, handControlEnabled, onHandUpdateRef')
    /\ results' = <<>>
    /\ recognizeGap' = PREDICTION_INTERVAL
    /\ UNCHANGED <<handControlEnabled, elapsed, pinchFrameCount, photos>>
    /\ UNCHANGED historyVars

\* handleKey on 'h': setHandControlEnabled(prev => !prev), the render and the effect
handleKey ==
    /\ UNCHANGED sceneVars
    /\ (~handControlEnabled /\ loaded) => Len(effects) < MaxEnables
    /\ handControlEnabled' = ~handControlEnabled
    /\ onHandUpdateRef' = Closure(handControlEnabled', mode, photos)
    /\ runEffect(loaded, handControlEnabled', onHandUpdateRef')
    /\ results' = <<>>
    /\ recognizeGap' = PREDICTION_INTERVAL
    /\ UNCHANGED <<loaded, elapsed, pinchFrameCount, photos>>
    /\ UNCHANGED historyVars

\* getUserMedia of run i resolves
getUserMediaResolved(i) ==
    /\ UNCHANGED sceneVars
    /\ i \in 1..Len(effects)
    /\ effects[i].stream = "pending"
    /\ effects' = [effects EXCEPT ![i].stream = "live"]
    /\ IF effects[i].isActive
       THEN /\ srcObject' = i
            /\ onloadeddata' = i
            /\ readyState' = 0
       ELSE UNCHANGED <<srcObject, onloadeddata, readyState>>
    /\ emitted' = <<>>
    /\ results' = <<>>
    /\ recognizeGap' = PREDICTION_INTERVAL
    /\ UNCHANGED <<loaded, handControlEnabled, rafScheduled, elapsed, pinchFrameCount,
                   photos, onHandUpdateRef>>
    /\ UNCHANGED appVars
    /\ UNCHANGED historyVars

\* getUserMedia of run i rejects: "Webcam error"
getUserMediaRejected(i) ==
    /\ UNCHANGED sceneVars
    /\ i \in 1..Len(effects)
    /\ effects[i].stream = "pending"
    /\ effects' = [effects EXCEPT ![i].stream = "denied"]
    /\ emitted' = <<>>
    /\ results' = <<>>
    /\ recognizeGap' = PREDICTION_INTERVAL
    /\ UNCHANGED <<loaded, handControlEnabled, srcObject, onloadeddata, readyState,
                   rafScheduled, elapsed, pinchFrameCount, photos, onHandUpdateRef>>
    /\ UNCHANGED appVars
    /\ UNCHANGED historyVars

-----------------------------------------------------------------------------
(* predict *)

\* the history of the qualifying run after a tick that counted a frame
runAfter(q) ==
    IF ~q THEN 0
    ELSE IF pinchFrameCount = 0 THEN 1
    ELSE IF qualRun > 0 THEN Min(qualRun + 1, PINCH_THRESHOLD_FRAMES)
    ELSE 0

\* predict() without the catch: the exception leaves predict before line 242
predict_throwEscapes(dt) ==
    LET t == Min(elapsed + dt, PREDICTION_INTERVAL) IN
    /\ IF t >= PREDICTION_INTERVAL /\ loaded /\ readyState' >= 2
       THEN \E res \in Results :
            /\ results' = <<res>>
            /\ rafScheduled' = (res.kind # "throw")
            /\ sinceRecognize' = 0
            /\ recognizeGap' = Min(sinceRecognize + dt, PREDICTION_INTERVAL)
            /\ IF res.kind = "throw"
               THEN /\ elapsed' = t
                    /\ emitted' = <<>>
                    /\ qualRun' = 0
                    /\ runFromFeature' = FALSE
                    /\ UNCHANGED pinchFrameCount
                    /\ UNCHANGED appVars
               ELSE LET state == signalOf(res, pinchFrameCount)
                        q == res.kind = "hand" /\ isQualifying(res.landmarks)
                    IN /\ pinchFrameCount' = countAfter(res, pinchFrameCount)
                       /\ Publish(onHandUpdateRef, state)
                       /\ emitted' = <<state>>
                       /\ elapsed' = 0
                       /\ qualRun' = runAfter(q)
                       /\ runFromFeature' =
                             IF q /\ pinchFrameCount = 0
                             THEN mode = "FEATURE" /\ onHandUpdateRef.mode = "FEATURE"
                             ELSE qualRun' > 0 /\ runFromFeature
       ELSE /\ results' = <<>>
            /\ recognizeGap' = PREDICTION_INTERVAL
            /\ rafScheduled' = TRUE
            /\ elapsed' = t
            /\ emitted' = <<>>
            /\ sinceRecognize' = Min(sinceRecognize + dt, PREDICTION_INTERVAL)
            /\ UNCHANGED pinchFrameCount
            /\ UNCHANGED appVars
            /\ UNCHANGED <<qualRun, runFromFeature>>

\* predict(), dt ms after the previous animation frame; the recognizer, if it is
\* asked, answers any of Results
predict(dt) ==
    LET t == Min(elapsed + dt, PREDICTION_INTERVAL) IN
    /\ rafScheduled' = TRUE
    /\ IF t >= PREDICTION_INTERVAL /\ loaded /\ readyState' >= 2
       THEN \E res \in Results :
            /\ results' = <<res>>
            /\ sinceRecognize' = 0
            /\ recognizeGap' = Min(sinceRecognize + dt, PREDICTION_INTERVAL)
            /\ IF res.kind = "throw"
               THEN /\ elapsed' = t
                    /\ emitted' = <<>>
                    /\ qualRun' = 0
                    /\ runFromFeature' = FALSE
                    /\ UNCHANGED pinchFrameCount
                    /\ UNCHANGED appVars
               ELSE LET state == signalOf(res, pinchFrameCount)
                        q == res.kind = "hand" /\ isQualifying(res.landmarks)
                    IN /\ pinchFrameCount' = countAfter(res, pinchFrameCount)
                       /\ Publish(onHandUpdateRef, state)
                       /\ emitted' = <<state>>
                       /\ elapsed' = 0
                       /\ qualRun' = runAfter(q)
                       /\ runFromFeature' =
                             IF q /\ pinchFrameCount = 0
                             THEN mode = "FEATURE" /\ onHandUpdateRef.mode = "FEATURE"
                             ELSE qualRun' > 0 /\ runFromFeature
       ELSE /\ results' = <<>>
            /\ recognizeGap' = PREDICTION_INTERVAL
            /\ elapsed' = t
            /\ emitted' = <<>>
            /\ sinceRecognize' = Min(sinceRecognize + dt, PREDICTION_INTERVAL)
            /\ UNCHANGED pinchFrameCount
            /\ UNCHANGED appVars
            /\ UNCHANGED <<qualRun, runFromFeature>>

\* the video's loadeddata event: onloadeddata calls predict() if its run is active
onLoadedData(dt) ==
    /\ UNCHANGED sceneVars
    /\ srcObject # 0
    /\ readyState = 0
    /\ readyState' = 2
    /\ IF onloadeddata # 0 /\ effects[onloadeddata].isActive
       THEN predict(dt)
       ELSE /\ emitted' = <<>>
            /\ results' = <<>>
            /\ recognizeGap' = PREDICTION_INTERVAL
            /\ UNCHANGED <<rafScheduled, elapsed, pinchFrameCount>>
            /\ UNCHANGED appVars
            /\ UNCHANGED historyVars
    /\ UNCHANGED <<loaded, handControlEnabled, effects, srcObject, onloadeddata,
                   photos, onHandUpdateRef>>

\* the animation frame requested by predict arrives
animationFrame(dt) ==
    /\ UNCHANGED sceneVars
    /\ rafScheduled
    /\ UNCHANGED <<loaded, handControlEnabled, effects, srcObject, onloadeddata,
                   readyState, photos, onHandUpdateRef>>
    /\ predict(dt)

-----------------------------------------------------------------------------
(* App *)

\* the render that follows the state updates of a hand update: useCallback makes a
\* new handler and the layout effect stores it in onHandUpdateRef.current
Render ==
    /\ UNCHANGED sceneVars
    /\ onHandUpdateRef # Closure(handControlEnabled, mode, photos)
    /\ onHandUpdateRef' = Closure(handControlEnabled, mode, photos)
    /\ emitted' = <<>>
    /\ results' = <<>>
    /\ recognizeGap' = PREDICTION_INTERVAL
    /\ UNCHANGED <<loaded, handControlEnabled, elapsed, pinchFrameCount, photos>>
    /\ UNCHANGED captureVars
    /\ UNCHANGED appVars
    /\ UNCHANGED historyVars

\* the ids of the photos handleAddPhoto makes of n files
newPhotos(n) ==
    LET k == Min(n, Max(0, MAX_PHOTOS - Len(photos)))
    IN [j \in 1..k |-> Len(photos) + j]

\* handleAddPhoto with n files, and the render that follows
handleAddPhoto(n) ==
    /\ UNCHANGED sceneVars
    /\ photos' = SubSeq(photos \o newPhotos(n), 1,
                        Min(Len(photos) + Len(newPhotos(n)), MAX_PHOTOS))
    /\ onHandUpdateRef' = Closure(handControlEnabled, mode, photos')
    /\ emitted' = <<>>
    /\ results' = <<>>
    /\ recognizeGap' = PREDICTION_INTERVAL
    /\ UNCHANGED <<loaded, handControlEnabled, elapsed, pinchFrameCount>>
    /\ UNCHANGED captureVars
    /\ UNCHANGED appVars
    /\ UNCHANGED historyVars

-----------------------------------------------------------------------------
(* The specification *)

EngineInit ==
    /\ loaded = FALSE
    /\ handControlEnabled = TRUE
    /\ effects = <<>>
    /\ srcObject = 0
    /\ onloadeddata = 0
    /\ readyState = 0
    /\ rafScheduled = FALSE
    /\ elapsed = PREDICTION_INTERVAL
    /\ pinchFrameCount = 0
    /\ mode = "FEATURE"
    /\ focusId = Null
    /\ photos = DEFAULT_PHOTOS
    /\ gestureDisplay = "None"
    /\ handStateRef = NeutralSignal
    /\ onHandUpdateRef = Closure(TRUE, "FEATURE", DEFAULT_PHOTOS)
    /\ emitted = <<>>
    /\ results = <<>>
    /\ qualRun = 0
    /\ runFromFeature = FALSE
    /\ sinceRecognize = PREDICTION_INTERVAL
    /\ recognizeGap = PREDICTION_INTERVAL

\* no call of getShapePositions is in progress
NoShapeCall ==
    [pc |-> "idle", count |-> 0, shape |-> "TREE", spread |-> 0, i |-> 0, positions |-> <<>>]

\* no instance is being followed
NoLerpRun ==
    [kind |-> "none", speed |-> 0, target |-> 0, start |-> 0, position |-> 0,
     lerpFactor |-> 0, ticks |-> 0]

\* the particle component is not mounted
NoParticles ==
    [count |-> 0, shape |-> "TREE", mode |-> "FEATURE", deps |-> <<>>,
     shapesCache |-> <<>>, target |-> <<>>, earlier |-> <<>>]

\* getPhotoSlotsForShape is not being called
NoSlotCalls ==
    [count |-> 0, shape |-> "TREE", calls |-> 0, first |-> <<>>, second |-> <<>>]

\* the debounce is not being followed
NoDebounce ==
    [count |-> 0, isPinching |-> FALSE, frame |-> "idle", before |-> 0,
     window |-> <<>>, qualifying |-> 0]

\* no StructureOrnaments is being followed
NoOrnaments ==
    [count |-> 0, i |-> 0, balls |-> <<>>, stars |-> <<>>, canes |-> <<>>,
     dropped |-> {}, frames |-> 0]

Init ==
    /\ EngineInit
    /\ ornaments = NoOrnaments
    /\ debounce = NoDebounce
    /\ shapeCall = NoShapeCall
    /\ lerpRun = NoLerpRun
    /\ particles = NoParticles
    /\ slotCalls = NoSlotCalls

Next ==
    \/ LoadRecognizer
    \/ handleKey
    \/ \E i \in 1..MaxEnables : getUserMediaResolved(i)
    \/ \E i \in 1..MaxEnables : getUserMediaRejected(i)
    \/ \E dt \in FrameDts : onLoadedData(dt)
    \/ \E dt \in FrameDts : animationFrame(dt)
    \/ Render
    \/ \E n \in FileCounts : handleAddPhoto(n)

Spec == Init /\ [][Next]_vars

-----------------------------------------------------------------------------
(* App on its own: the mode controller under any caller of onHandUpdate    *)
(*                                                                         *)
(* The recognizer is never loaded here, so HandController publishes        *)
(* nothing; the HandSignals come from outside, in any order and with any   *)
(* gesture and isPinching.                                                 *)

Gestures == {"None", "Closed_Fist", "Open_Palm", "Pinch"}

HandSignals ==
    {[x |-> 0, y |-> 0, pinchX |-> 0, pinchY |-> 0,
      isPinching |-> p, gesture |-> g, active |-> a] :
        p \in BOOLEAN, g \in Gestures, a \in BOOLEAN}

\* onHandUpdateRef.current(state): the handler of the last render processes state
onHandUpdate(state) ==
    /\ UNCHANGED sceneVars
    /\ Publish(onHandUpdateRef, state)
    /\ emitted' = <<state>>
    /\ results' = <<>>
    /\ recognizeGap' = PREDICTION_INTERVAL
    /\ UNCHANGED <<loaded, handControlEnabled, elapsed, pinchFrameCount, photos,
                   onHandUpdateRef>>
    /\ UNCHANGED captureVars
    /\ UNCHANGED historyVars

NextController ==
    \/ \E state \in HandSignals : onHandUpdate(state)
    \/ handleKey
    \/ Render
    \/ \E n \in FileCounts : handleAddPhoto(n)

SpecController == Init /\ [][NextController]_vars

-----------------------------------------------------------------------------
(* The pinch debounce of predict, on its own                               *)
(*                                                                         *)
(* One step is one call of recognizeForVideo and what predict makes of its *)
(* result: the counter and the isPinching it publishes.  window is the     *)
(* qualifying / not qualifying of the last PINCH_THRESHOLD_FRAMES results  *)
(* that did not throw, qualifying the number of qualifying results since   *)
(* the counter was last 0 (counted up to PINCH_THRESHOLD_FRAMES).          *)

\* the last n elements of s
LastN(s, n) == IF Len(s) <= n THEN s ELSE SubSeq(s, Len(s) - n + 1, Len(s))

debounceFrame == UNCHANGED <<engineVars, shapeCall, lerpRun, particles, slotCalls, ornaments>>

\* the try block of predict for one result
debounceTick ==
    /\ \E res \in Results :
          debounce' =
            IF res.kind = "throw"
            THEN [debounce EXCEPT !.frame = "throw", !.before = debounce.count]
            ELSE LET q == res.kind = "hand" /\ isQualifying(res.landmarks) IN
                 [count      |-> countAfter(res, debounce.count),
                  isPinching |-> signalOf(res, debounce.count).isPinching,
                  frame      |-> res.kind,
                  before     |-> debounce.count,
                  window     |-> LastN(Append(debounce.window, q), PINCH_THRESHOLD_FRAMES),
                  qualifying |-> IF ~q THEN (IF debounce.count = 0 THEN 0 ELSE debounce.qualifying)
                                 ELSE IF debounce.count = 0 THEN 1
                                 ELSE Min(debounce.qualifying + 1, PINCH_THRESHOLD_FRAMES)]
    /\ debounceFrame

\* pinchFrameCount = useRef(0)
InitDebounce ==
    /\ EngineInit
    /\ ornaments = NoOrnaments
    /\ shapeCall = NoShapeCall
    /\ lerpRun = NoLerpRun
    /\ particles = NoParticles
    /\ slotCalls = NoSlotCalls
    /\ ornaments = NoOrnaments
    /\ debounce = [count |-> 0, isPinching |-> FALSE, frame |-> "none", before |-> 0,
                   window |-> <<>>, qualifying |-> 0]

NextDebounce == debounceTick

SpecDebounce == InitDebounce /\ [][NextDebounce]_vars

-----------------------------------------------------------------------------
(* StructureOrnaments: the split of the ornaments into three batches       *)
(*                                                                         *)
(* A batch is the instance buffer of an instancedMesh: one place per       *)
(* instance of its capacity, holding the index i of the ornament whose     *)
(* matrix was last written there, Unwritten before that.  setMatrixAt at a *)
(* place past the capacity stores nothing (the write falls outside the     *)
(* typed array); dropped keeps such writes.                                *)

MaxOrnaments == 16
OrnamentCounts == 0..MaxOrnaments

Unwritten == -1

\* Math.floor(count * 0.5)
typeCutoff1(count) == count \div 2

\* Math.floor(count * 0.75)
typeCutoff2(count) == (3 * count) \div 4

\* the args of the three instancedMesh elements
capacities(count) ==
    [balls |-> typeCutoff1(count),
     stars |-> typeCutoff2(count) - typeCutoff1(count),
     canes |-> count - typeCutoff2(count)]

\* an instance buffer of n places
InstancedMesh(n) == [k \in 1..n |-> Unwritten]

\* the batch and the place ornament i is written to, every batch taking the place i
batchIndex_globalIndex(i, count) ==
    IF i < typeCutoff1(count) THEN [batch |-> "balls", local |-> i]
    ELSE IF i < typeCutoff2(count) THEN [batch |-> "stars", local |-> i]
    ELSE [batch |-> "canes", local |-> i]

\* the batch and the place ornament i is written to
batchIndex(i, count) ==
    IF i < typeCutoff1(count) THEN [batch |-> "balls", local |-> i]
    ELSE IF i < typeCutoff2(count) THEN [batch |-> "stars", local |-> i - typeCutoff1(count)]
    ELSE [batch |-> "canes", local |-> i - typeCutoff2(count)]

\* setMatrixAt(local, dummy.matrix) for ornament i
setMatrixAt(mesh, local, i) ==
    IF local + 1 \in DOMAIN mesh THEN [mesh EXCEPT ![local + 1] = i] ELSE mesh

ornamentsFrame == UNCHANGED <<engineVars, shapeCall, lerpRun, particles, slotCalls, debounce>>

\* one iteration of the loop of useFrame
ornamentsIterate ==
    /\ ornaments.frames > 0
    /\ ornaments.i < ornaments.count
    /\ LET i == ornaments.i
           w == batchIndex(i, ornaments.count)
           mesh == ornaments[w.batch]
       IN ornaments' =
            [ornaments EXCEPT
               ![w.batch] = setMatrixAt(mesh, w.local, i),
               !.dropped = IF w.local + 1 \in DOMAIN mesh THEN @ ELSE @ \cup {i},
               !.i = i + 1]
    /\ ornamentsFrame

\* the loop of useFrame is over; the next frame starts it again
ornamentsNextFrame ==
    /\ ornaments.frames = 1
    /\ ornaments.i = ornaments.count
    /\ ornaments' = [ornaments EXCEPT !.i = 0, !.frames = 2]
    /\ ornamentsFrame

\* the component is mounted with some count and the first frame begins
InitOrnaments ==
    /\ EngineInit
    /\ shapeCall = NoShapeCall
    /\ lerpRun = NoLerpRun
    /\ particles = NoParticles
    /\ slotCalls = NoSlotCalls
    /\ debounce = NoDebounce
    /\ \E count \in OrnamentCounts :
          ornaments = [count |-> count, i |-> 0,
                       balls |-> InstancedMesh(capacities(count).balls),
                       stars |-> InstancedMesh(capacities(count).stars),
                       canes |-> InstancedMesh(capacities(count).canes),
                       dropped |-> {}, frames |-> 1]

NextOrnaments == ornamentsIterate \/ ornamentsNextFrame

SpecOrnaments == InitOrnaments /\ [][NextOrnaments]_vars

-----------------------------------------------------------------------------
(* utils/geometry: getShapePositions                                       *)
(*                                                                         *)
(* spread and the outcomes of Math.random() are in hundredths.  For a call *)
(* with a given count, a coordinate is in units of 1 / (20000 * count), so *)
(* that the height of a TREE point, -6 + t*12 + (random - 0.5) * thickness *)
(* with t = i / count and thickness = spread * (2 * (1 - t) + 0.5), is an  *)
(* integer.  The x and z of a TREE point and the coordinates of the other  *)
(* shapes go through cos, sin, acos and sqrt; of those the model keeps     *)
(* which branch wrote them, not the number.                                *)

FeatureShape == {"TREE", "SANTA", "SOCK", "ELK"}

(* Bounds of the model *)

MaxCount == 3

\* the arguments the calls are made with: spread 0, the 0.15 of the ornaments
\* and the 1.5 of the dust; outcomes of Math.random() in each band of the
\* branch thresholds
Counts == -1..MaxCount
Spreads == {0, 15, 150}
Draws == {0, 30, 50, 70, 99}

Unit(count) == 20000 * count

\* new Float32Array(n): n zeros, or a RangeError for a negative length
ZeroEntry == [written |-> FALSE, part |-> "zero", value |-> 0]
Float32Array(n) == [k \in 1..n |-> ZeroEntry]

\* const height = -6 + tMod * 12
treeHeight_descending(i, count) == 20000 * (-6 * count - 12 * i)
treeHeight(i, count) == 20000 * (-6 * count + 12 * i)

\* const thickness = spread * (2.0 * (1 - tMod) + 0.5), in units of 1 / (200 * count)
treeThickness(i, count, spread) == spread * (5 * count - 4 * i)

\* (Math.random() - 0.5) * thickness
treeOffset(draw, thickness) == (draw - 50) * thickness

\* the y of the TREE point i: height + hOffset
treeY(i, count, spread, draw) ==
    treeHeight(i, count) + treeOffset(draw, treeThickness(i, count, spread))

\* the branch of the switch that sets vec, chosen by the first Math.random() of
\* the case (TREE draws none for this)
partOf(shape, draw) ==
    CASE shape = "TREE" -> "spiral"
      [] shape = "SOCK" -> IF draw < 60 THEN "leg" ELSE "foot"
      [] shape = "ELK"  -> IF draw < 40 THEN "body"
                           ELSE IF draw < 60 THEN "legs"
                           ELSE IF draw < 75 THEN "neck"
                           ELSE "antlers"
      [] OTHER          -> IF draw < 25 THEN "hat"
                           ELSE IF draw < 45 THEN "face"
                           ELSE IF draw < 60 THEN "beard"
                           ELSE "santaBody"

\* vec after the switch for point i
shapePoint(c, draw) ==
    [part |-> partOf(c.shape, draw),
     y    |-> IF c.shape = "TREE" THEN treeY(c.i, c.count, c.spread, draw) ELSE 0]

\* positions[i * 3] = vec.x; positions[i * 3 + 1] = vec.y; positions[i * 3 + 2] = vec.z
writePoint(positions, i, vec) ==
    [positions EXCEPT
        ![i * 3 + 1] = [written |-> TRUE, part |-> vec.part, value |-> 0],
        ![i * 3 + 2] = [written |-> TRUE, part |-> vec.part, value |-> vec.y],
        ![i * 3 + 3] = [written |-> TRUE, part |-> vec.part, value |-> 0]]

\* the test of the for loop
loopTest_stopsEarly(i, count) == i < count - 1
loopTest(i, count) == i < count

\* getShapePositions touches nothing but its locals
gspFrame == UNCHANGED <<engineVars, lerpRun, particles, slotCalls, debounce, ornaments>>

\* const positions = new Float32Array(count * 3)
gspAllocate ==
    /\ shapeCall.pc = "called"
    /\ shapeCall' =
          IF shapeCall.count * 3 < 0
          THEN [shapeCall EXCEPT !.pc = "RangeError"]
          ELSE [shapeCall EXCEPT !.pc = "loop", !.i = 0,
                                 !.positions = Float32Array(shapeCall.count * 3)]
    /\ gspFrame

\* one iteration of the loop
gspIterate ==
    /\ shapeCall.pc = "loop"
    /\ loopTest(shapeCall.i, shapeCall.count)
    /\ \E draw \in Draws :
          shapeCall' = [shapeCall EXCEPT
                           !.positions = writePoint(shapeCall.positions, shapeCall.i,
                                                    shapePoint(shapeCall, draw)),
                           !.i = shapeCall.i + 1]
    /\ gspFrame

\* return positions
gspReturn ==
    /\ shapeCall.pc = "loop"
    /\ ~loopTest(shapeCall.i, shapeCall.count)
    /\ shapeCall' = [shapeCall EXCEPT !.pc = "returned"]
    /\ gspFrame

\* getShapePositions(count, shape, spread) has just been called
InitShapes ==
    /\ EngineInit
    /\ ornaments = NoOrnaments
    /\ debounce = NoDebounce
    /\ \E count \in Counts, shape \in FeatureShape, spread \in Spreads :
          shapeCall = [pc |-> "called", count |-> count, shape |-> shape,
                       spread |-> spread, i |-> 0, positions |-> <<>>]
    /\ lerpRun = NoLerpRun
    /\ particles = NoParticles
    /\ slotCalls = NoSlotCalls

NextShapes ==
    \/ gspAllocate
    \/ gspIterate
    \/ gspReturn

SpecShapes == InitShapes /\ [][NextShapes]_vars

-----------------------------------------------------------------------------
(* The position lerp of useFrame (MagicParticles, StructureOrnaments)      *)
(*                                                                         *)
(* positions is a Float32Array: the sum old + (target - old) * lerpFactor  *)
(* is computed in double precision and rounded to the nearest 32-bit float *)
(* when it is stored, ties to even.  A position is kept as an integer      *)
(* number of spacings of the 32-bit floats around the target, the target   *)
(* (itself read from a Float32Array) too; lerpFactor and speed are in      *)
(* hundredths, resp. units.                                                *)

(* Bounds of the model *)

MaxDistance == 40
MaxTicks == 3

LerpKinds == {"dust", "ornament"}
Speeds == {1, 5, 20}
Targets == {-3, 0, 8}

Abs(x) == IF x < 0 THEN -x ELSE x

\* the multiple of m nearest to n, as a number of m's; a tie goes to the even one
RoundToNearest(n, m) ==
    LET q == n \div m
        r == n % m
    IN IF 2 * r < m THEN q
       ELSE IF 2 * r > m THEN q + 1
       ELSE IF q % 2 = 0 THEN q ELSE q + 1

\* const lerpFactor = 0.02 * params.speed;  const lerpSpeed = 0.04 * params.speed
lerpFactorOf(kind, speed) == IF kind = "dust" THEN 2 * speed ELSE 4 * speed

\* positions[k] += (t - positions[k]) * lerpFactor
lerpStep_overshoots(old, target, factor) ==
    RoundToNearest(old * 100 + (target - old) * (100 + factor), 100)
lerpStep(old, target, factor) ==
    RoundToNearest(old * 100 + (target - old) * factor, 100)

lerpFrame == UNCHANGED <<engineVars, shapeCall, particles, slotCalls, debounce, ornaments>>

\* useFrame: one tick, for one axis of one instance with a fixed target
lerpTick ==
    /\ lerpRun.ticks < MaxTicks
    /\ LET f == lerpFactorOf(lerpRun.kind, lerpRun.speed) IN
          lerpRun' = [lerpRun EXCEPT
                         !.lerpFactor = f,
                         !.position = lerpStep(lerpRun.position, lerpRun.target, f),
                         !.ticks = lerpRun.ticks + 1]
    /\ lerpFrame

InitLerp ==
    /\ EngineInit
    /\ ornaments = NoOrnaments
    /\ debounce = NoDebounce
    /\ shapeCall = NoShapeCall
    /\ particles = NoParticles
    /\ slotCalls = NoSlotCalls
    /\ \E kind \in LerpKinds, speed \in Speeds, target \in Targets,
          start \in -MaxDistance..MaxDistance :
          lerpRun = [kind |-> kind, speed |-> speed, target |-> target,
                     start |-> target + start, position |-> target + start,
                     lerpFactor |-> 0, ticks |-> 0]

NextLerp == lerpTick

SpecLerp == InitLerp /\ [][NextLerp]_vars

-----------------------------------------------------------------------------
(* shapesCache of MagicParticles and StructureOrnaments                    *)
(*                                                                         *)
(* The component is rendered again whenever a prop changes; useMemo        *)
(* recomputes its value in a render whose dependency array differs from    *)
(* the one of the render that computed it.  What getShapePositions returns *)
(* is random: here any of ShapeSamples, one axis per instance.             *)

ParticleCounts == {1, 2}
SampleSeeds == {1, 2}

ShapeSamples(count) == {[i \in 1..count |-> seed * i] : seed \in SampleSeeds}

\* the four calls of getShapePositions in the factory of the useMemo
ShapeCaches(count) == [FeatureShape -> ShapeSamples(count)]

\* the dependency array of the useMemo
memoDeps_withShape(props) == <<props.count, props.shape>>
memoDeps(props) == <<props.count>>

\* a render with the props in p: useMemo keeps the value or takes a fresh one
rendered(p, fresh) ==
    IF memoDeps(p) = p.deps
    THEN p
    ELSE [p EXCEPT !.deps = memoDeps(p), !.shapesCache = fresh]

memoFrame == UNCHANGED <<engineVars, shapeCall, lerpRun, slotCalls, debounce, ornaments>>

\* the parent passes another shape (setFeatureShape in App)
setShape(shape) ==
    /\ shape # particles.shape
    /\ \E fresh \in ShapeCaches(particles.count) :
          particles' = rendered([particles EXCEPT
                                    !.shape = shape,
                                    !.earlier = <<particles.earlier[2], particles.shape>>],
                                fresh)
    /\ memoFrame

\* the parent passes another mode
setMode(m) ==
    /\ m # particles.mode
    /\ \E fresh \in ShapeCaches(particles.count) :
          particles' = rendered([particles EXCEPT !.mode = m], fresh)
    /\ memoFrame

\* the parent passes another count
setCount(count) ==
    /\ count # particles.count
    /\ \E fresh \in ShapeCaches(count) :
          particles' = rendered([particles EXCEPT
                                    !.count = count,
                                    !.earlier = <<"none", "none">>],
                                fresh)
    /\ memoFrame

\* useFrame: in FEATURE the base target of every instance is read from
\* shapesCache[shape]; in the other modes it is not
useFrame ==
    /\ particles' = [particles EXCEPT
                         !.target = IF particles.mode = "FEATURE"
                                    THEN [shape |-> particles.shape,
                                          base |-> particles.shapesCache[particles.shape]]
                                    ELSE [shape |-> "none", base |-> <<>>]]
    /\ memoFrame

\* the component has been mounted and rendered once
InitMemo ==
    /\ EngineInit
    /\ ornaments = NoOrnaments
    /\ debounce = NoDebounce
    /\ shapeCall = NoShapeCall
    /\ lerpRun = NoLerpRun
    /\ slotCalls = NoSlotCalls
    /\ \E count \in ParticleCounts :
       \E fresh \in ShapeCaches(count) :
          particles = rendered([count |-> count, shape |-> "TREE", mode |-> "FEATURE",
                                deps |-> <<>>, shapesCache |-> <<>>,
                                target |-> [shape |-> "none", base |-> <<>>],
                                earlier |-> <<"none", "none">>],
                               fresh)

NextMemo ==
    \/ \E shape \in FeatureShape : setShape(shape)
    \/ \E m \in AppMode : setMode(m)
    \/ \E count \in ParticleCounts : setCount(count)
    \/ useFrame

SpecMemo == InitMemo /\ [][NextMemo]_vars

-----------------------------------------------------------------------------
(* utils/geometry: getPhotoSlotsForShape                                   *)
(*                                                                         *)
(* A slot of the TREE is kept by the radius, height and angle of which    *)
(* the code makes (radius cos angle, height, radius sin angle): radius and *)
(* height in units of 1 / (10 * count), the angle in units of              *)
(* pi / (10 * count).  A slot of another shape is kept by its x, y, z in   *)
(* hundredths.                                                             *)

(* Bounds of the model *)

MaxSlots == 2

SlotCounts == 0..MaxSlots
SlotDraws == {0, 99}

\* getRandomPosition(scale): (Math.random() - 0.5) * scale on each axis
getRandomPosition(scale) ==
    {[kind |-> "xyz", a |-> (dx - 50) * scale, b |-> (dy - 50) * scale,
      c |-> (dz - 50) * scale] : dx \in SlotDraws, dy \in SlotDraws, dz \in SlotDraws}

\* the slot i of the TREE: t = 0.2 + (i / count) * 0.7, radius = 5 * (1 - t) + 0.8,
\* height = -6 + t * 12, angle = t * 2 pi * 8 + i * pi / 2
treeSlot(i, count) ==
    [kind |-> "polar",
     a |-> 48 * count - 35 * i,
     b |-> -36 * count + 84 * i,
     c |-> 32 * count + 112 * i + 5 * i * count]

\* what a call can return
getPhotoSlotsForShape_allRandom(count, shape) ==
    [1..count -> getRandomPosition(8)]
getPhotoSlotsForShape(count, shape) ==
    IF shape = "TREE"
    THEN {[k \in 1..count |-> treeSlot(k - 1, count)]}
    ELSE [1..count -> getRandomPosition(8)]

slotFrame == UNCHANGED <<engineVars, shapeCall, lerpRun, particles, debounce, ornaments>>

\* a call of getPhotoSlotsForShape(count, shape)
slotsFirstCall ==
    /\ slotCalls.calls = 0
    /\ \E slots \in getPhotoSlotsForShape(slotCalls.count, slotCalls.shape) :
          slotCalls' = [slotCalls EXCEPT !.calls = 1, !.first = slots]
    /\ slotFrame

\* another call with the same arguments
slotsSecondCall ==
    /\ slotCalls.calls = 1
    /\ \E slots \in getPhotoSlotsForShape(slotCalls.count, slotCalls.shape) :
          slotCalls' = [slotCalls EXCEPT !.calls = 2, !.second = slots]
    /\ slotFrame

InitSlots ==
    /\ EngineInit
    /\ ornaments = NoOrnaments
    /\ debounce = NoDebounce
    /\ shapeCall = NoShapeCall
    /\ lerpRun = NoLerpRun
    /\ particles = NoParticles
    /\ \E count \in SlotCounts, shape \in FeatureShape :
          slotCalls = [count |-> count, shape |-> shape, calls |-> 0,
                       first |-> <<>>, second |-> <<>>]

NextSlots ==
    \/ slotsFirstCall
    \/ slotsSecondCall

SpecSlots == InitSlots /\ [][NextSlots]_vars

-----------------------------------------------------------------------------
(* Vocabulary of the properties *)

\* the last step was an inference tick on which a hand was detected
HandTick == results # <<>> /\ results[1].kind = "hand"

\* of the poses, PinchPose alone has the tips together and the other fingers curled
QualifyingPose(l) == l = PinchPose

\* the ids of a sequence of photos
PhotoIds(ph) == {ph[i] : i \in 1..Len(ph)}

\* the inference result of an open hand that the recognizer labels Open_Palm
OpenPalmResult == Hand(OpenPose, "Open_Palm")

-----------------------------------------------------------------------------
(* C1 *)

\* C1: with gesture control enabled, the pinch latched and the mode FOCUS, the
\* next tick on which an open hand labelled Open_Palm is detected leaves the mode
\* SCATTER and the focus target cleared.
C1_OpenPalmAfterLatch ==
    [][(/\ handControlEnabled
        /\ isLatched(pinchFrameCount)
        /\ mode = "FOCUS"
        /\ results' = <<OpenPalmResult>>)
       => (mode' = "SCATTER" /\ focusId' = Null)]_vars

-----------------------------------------------------------------------------
(* C3 *)

\* C3: after the latch, every tick on which the hand is detected and the pinch
\* condition is not met takes 2 off the counter (floored at 0), so that a finite
\* run of such ticks brings it to 0 and isPinching back to false.
C3_DecayAfterLatch ==
    [][(/\ results' # <<>>
        /\ results'[1].kind = "hand"
        /\ ~QualifyingPose(results'[1].landmarks))
       => pinchFrameCount' = Max(0, pinchFrameCount - 2)]_vars

-----------------------------------------------------------------------------
(* C4 *)

\* C4: in every state where capture is disabled the pinch debounce counter is 0.
C4_DisabledCounterZero == ~handControlEnabled => pinchFrameCount = 0

-----------------------------------------------------------------------------
(* C6 *)

\* C6: every HandSignal published, by a tick or by the disable reset, has
\* isPinching = true only with gesture = 'Pinch'.
C6_PinchingImpliesPinch ==
    /\ \A i \in 1..Len(emitted) : emitted[i].isPinching => emitted[i].gesture = "Pinch"
    /\ handStateRef.isPinching => handStateRef.gesture = "Pinch"

\* a tick has just published a latched signal over a recognizer label other than None
C6_Witness ==
    /\ HandTick
    /\ results[1].categoryName = "Closed_Fist"
    /\ emitted # <<>>
    /\ emitted[1].isPinching

-----------------------------------------------------------------------------
(* C7 *)

\* C7: in every reachable state the pinch debounce counter is an integer in
\* [0, PINCH_THRESHOLD_FRAMES + 2].
C7_CounterRange == pinchFrameCount \in 0..(PINCH_THRESHOLD_FRAMES + 2)

\* a qualifying tick has run past the fifth of its run: the counter is at the clamp
C7_Witness ==
    /\ HandTick
    /\ QualifyingPose(results[1].landmarks)
    /\ qualRun = PINCH_THRESHOLD_FRAMES
    /\ pinchFrameCount = PINCH_THRESHOLD_FRAMES + 2

-----------------------------------------------------------------------------
(* C2 *)

-----------------------------------------------------------------------------
(* C5 *)

\* C5: with the recognizer loaded, the step that takes capture from enabled to
\* disabled publishes the neutral HandSignal exactly once, and while capture
\* stays disabled no step publishes a HandSignal or invokes the inference.
C5_DisableResetsOnce ==
    [][/\ (loaded /\ handControlEnabled /\ ~handControlEnabled')
             => emitted' = <<NeutralSignal>>
       /\ (loaded /\ ~handControlEnabled /\ ~handControlEnabled')
             => (emitted' = <<>> /\ results' = <<>>)]_vars

\* capture has just been disabled while the pinch was latched and the loop running
C5_Witness ==
    /\ loaded
    /\ ~handControlEnabled
    /\ emitted = <<NeutralSignal>>
    /\ handStateRef = NeutralSignal
    /\ isLatched(pinchFrameCount)
    /\ \E i \in 1..Len(effects) : effects[i].stream = "stopped"

-----------------------------------------------------------------------------
(* C8 *)

-----------------------------------------------------------------------------
(* C9 *)

\* C9: with gesture control enabled, a step that processes a HandSignal whose
\* gesture is Open_Palm leaves the mode SCATTER and the focus target null,
\* whatever the mode and the focus target were.
C9_OpenPalmScatters ==
    [][(/\ handControlEnabled
        /\ emitted' # <<>>
        /\ emitted'[1].gesture = "Open_Palm")
       => (mode' = "SCATTER" /\ focusId' = Null)]_vars

\* an Open_Palm signal has just been processed in mode FOCUS (the handler still
\* holds FOCUS, the render has not run yet)
C9_Witness ==
    /\ emitted # <<>>
    /\ emitted[1].gesture = "Open_Palm"
    /\ onHandUpdateRef.mode = "FOCUS"
    /\ mode = "SCATTER"
    /\ focusId = Null

-----------------------------------------------------------------------------
(* C10 *)

\* C10: with gesture control enabled, a step that processes a HandSignal whose
\* gesture is Closed_Fist leaves the mode FEATURE and the focus target null; in
\* mode FEATURE it changes neither, and processing the same signal once more
\* changes neither.
C10_ClosedFistFeature ==
    [][(/\ handControlEnabled
        /\ emitted' # <<>>
        /\ emitted'[1].gesture = "Closed_Fist")
       => /\ mode' = "FEATURE"
          /\ focusId' = Null
          /\ (mode = "FEATURE" => (mode' = mode /\ focusId' = focusId))
          /\ handleHandUpdate(onHandUpdateRef', [mode |-> mode', focusId |-> focusId'],
                              emitted'[1])
                = {[mode |-> mode', focusId |-> focusId']}]_vars

\* a Closed_Fist signal has just been processed in mode FOCUS (the handler still
\* holds FOCUS, the render has not run yet)
C10_Witness ==
    /\ emitted # <<>>
    /\ emitted[1].gesture = "Closed_Fist"
    /\ onHandUpdateRef.mode = "FOCUS"
    /\ mode = "FEATURE"
    /\ focusId = Null

-----------------------------------------------------------------------------
(* C11 *)

\* C11: once a pinch update has entered FOCUS, a step that processes a further
\* HandSignal with isPinching = TRUE leaves the mode and the focus target as
\* they were, whether or not a render has refreshed the handler in between.
C11_PinchSelectsOnce ==
    [][(/\ mode = "FOCUS"
        /\ focusId # Null
        /\ emitted' # <<>>
        /\ emitted'[1].isPinching)
       => (mode' = mode /\ focusId' = focusId)]_vars

-----------------------------------------------------------------------------
(* C12 *)

\* C12: any two consecutive calls of recognizeForVideo are at least
\* PREDICTION_INTERVAL ms apart, whatever the frame rate and whether the
\* earlier call returned a hand, returned none or threw.
C12_RecognizeThrottled ==
    recognizeGap >= PREDICTION_INTERVAL

-----------------------------------------------------------------------------
(* C13 *)

\* C13: a tick on which recognizeForVideo throws publishes no HandSignal,
\* leaves the HandSignal published before (and what the handler derived from
\* it) as it was, and has requested the next animation frame.
C13_ThrowSkipsTick ==
    [][(results' = <<[kind |-> "throw"]>>)
       => /\ emitted' = <<>>
          /\ handStateRef' = handStateRef
          /\ gestureDisplay' = gestureDisplay
          /\ mode' = mode
          /\ focusId' = focusId
          /\ rafScheduled']_vars

\* the recognizer has just thrown while the signal published before it, an
\* active and pinching hand, is still the current one
C13_Witness ==
    /\ results = <<[kind |-> "throw"]>>
    /\ emitted = <<>>
    /\ handStateRef.active
    /\ handStateRef.isPinching
    /\ rafScheduled

-----------------------------------------------------------------------------
(* C14 *)

\* C14: no run of the effect that has been cleaned up (capture disabled) holds
\* a camera stream that is live: a stream acquired before the disable has been
\* stopped by it, and one whose getUserMedia resolves after it is stopped too.
C14_DisabledStreamsStopped ==
    \A i \in 1..Len(effects) :
        ~effects[i].isActive => effects[i].stream # "live"

-----------------------------------------------------------------------------
(* C15 *)

\* C15: a call of getShapePositions with count > 0 returns an array of exactly
\* 3 * count coordinates, every one of them written by the loop, for every
\* shape and every spread.
C15_AllPointsWritten ==
    (shapeCall.pc = "returned" /\ shapeCall.count > 0)
    => /\ Len(shapeCall.positions) = 3 * shapeCall.count
       /\ \A k \in 1..(3 * shapeCall.count) : shapeCall.positions[k].written

\* a call for MaxCount points of the ELK has returned, its last point written
\* by the antlers branch
C15_Witness ==
    /\ shapeCall.pc = "returned"
    /\ shapeCall.count = MaxCount
    /\ shapeCall.shape = "ELK"
    /\ shapeCall.positions[3 * MaxCount].part = "antlers"

-----------------------------------------------------------------------------
(* C16 *)

\* C16: a call of getShapePositions with count <= 0 returns no array.
C16_InvalidCountRejected ==
    shapeCall.pc = "returned" => shapeCall.count > 0

-----------------------------------------------------------------------------
(* C18 *)

\* C18: the y of every point of a TREE lies in [-6, 6], for every count, every
\* spread and every outcome of the random draws.
C18_TreeHeightInExtent ==
    shapeCall.shape = "TREE" =>
        \A k \in 1..Len(shapeCall.positions) :
            (shapeCall.positions[k].written /\ k % 3 = 2)
            => /\ shapeCall.positions[k].value >= -6 * Unit(shapeCall.count)
               /\ shapeCall.positions[k].value <= 6 * Unit(shapeCall.count)

\* C18, amended: the y of every point of a TREE lies in
\* [-6 - 1.25 * spread, 6 + 1.25 * spread]: the height -6 + 12 * i / count of
\* the spiral is in [-6, 6) and the jitter added to it is at most half the
\* thickness, which is at most 2.5 * spread.  (1.25 * spread is
\* 250 * spread * count units, spread being in hundredths.)
C18_TreeHeightWithinJitter ==
    shapeCall.shape = "TREE" =>
        \A k \in 1..Len(shapeCall.positions) :
            (shapeCall.positions[k].written /\ k % 3 = 2)
            => /\ shapeCall.positions[k].value
                    >= -6 * Unit(shapeCall.count) - 250 * shapeCall.spread * shapeCall.count
               /\ shapeCall.positions[k].value
                    <= 6 * Unit(shapeCall.count) + 250 * shapeCall.spread * shapeCall.count

\* a TREE of MaxCount points with spread 1.5 has been returned whose first
\* point is at y = -6 - 1.25 * spread, below the spiral
C18_Witness ==
    /\ shapeCall.pc = "returned"
    /\ shapeCall.shape = "TREE"
    /\ shapeCall.count = MaxCount
    /\ shapeCall.spread = 150
    /\ shapeCall.positions[2].value
          = -6 * Unit(MaxCount) - 250 * shapeCall.spread * MaxCount

-----------------------------------------------------------------------------
(* C17 *)

\* C17: with a fixed target and a lerpFactor in (0, 1), every tick on which
\* the position is not at the target makes the distance to the target strictly
\* smaller and does not carry the position across the target; lerpFactor is
\* 0.02 * speed for the dust and 0.04 * speed for the ornaments.
C17_LerpStrictlyCloser ==
    [][(lerpRun'.ticks = lerpRun.ticks + 1 /\ lerpRun.position # lerpRun.target)
       => /\ Abs(lerpRun.target - lerpRun'.position)
                < Abs(lerpRun.target - lerpRun.position)
          /\ (lerpRun.position < lerpRun.target => lerpRun'.position <= lerpRun.target)
          /\ (lerpRun.position > lerpRun.target => lerpRun'.position >= lerpRun.target)
          /\ lerpRun'.lerpFactor = (IF lerpRun.kind = "dust" THEN 2 ELSE 4) * lerpRun.speed]_vars

\* C17, amended: with a fixed target and a lerpFactor in (0, 1), no tick makes
\* the distance to the target larger or carries the position across the
\* target; the distance becomes strictly smaller on a tick whose exact step
\* |target - old| * lerpFactor is more than half the spacing of the stored
\* 32-bit floats, and the stored position does not change on a tick whose
\* exact step is less than half that spacing; lerpFactor is 0.02 * speed for
\* the dust and 0.04 * speed for the ornaments.
C17_LerpNeverFarther ==
    [][(lerpRun'.ticks = lerpRun.ticks + 1)
       => LET old == lerpRun.position
              new == lerpRun'.position
              target == lerpRun.target
              f == lerpRun'.lerpFactor
          IN /\ Abs(target - new) <= Abs(target - old)
             /\ (old <= target => new <= target)
             /\ (old >= target => new >= target)
             /\ (2 * Abs(target - old) * f > 100 => Abs(target - new) < Abs(target - old))
             /\ (2 * Abs(target - old) * f < 100 => new = old)
             /\ f = (IF lerpRun.kind = "dust" THEN 2 ELSE 4) * lerpRun.speed
             /\ f > 0 /\ f < 100]_vars

\* an ornament at speed 1 has moved towards its target and then stayed where it
\* was for a tick, short of the target
C17_Witness ==
    /\ lerpRun.kind = "ornament"
    /\ lerpRun.speed = 1
    /\ lerpRun.ticks = MaxTicks
    /\ lerpRun.position # lerpRun.start
    /\ lerpRun.position # lerpRun.target
    /\ lerpStep(lerpRun.position, lerpRun.target, lerpRun.lerpFactor) = lerpRun.position

-----------------------------------------------------------------------------
(* C19 *)

\* C19: as long as count stays the same, shapesCache stays the same through
\* frames, mode switches and shape switches, and the base target a FEATURE
\* frame reads for the instances of the current shape is the cached one.
C19_CacheStable ==
    [][/\ particles'.count = particles.count
          => particles'.shapesCache = particles.shapesCache
       /\ (particles'.target # particles.target /\ particles.mode = "FEATURE")
          => particles'.target = [shape |-> particles.shape,
                                  base |-> particles.shapesCache[particles.shape]]]_vars

\* the shape has been switched from TREE to ELK and back to TREE, and a
\* FEATURE frame has read the TREE targets after that
C19_Witness ==
    /\ particles.earlier = <<"TREE", "ELK">>
    /\ particles.shape = "TREE"
    /\ particles.mode = "FEATURE"
    /\ particles.target = [shape |-> "TREE", base |-> particles.shapesCache["TREE"]]

-----------------------------------------------------------------------------
(* C20 *)

\* C20: two calls of getPhotoSlotsForShape with the same count and shape
\* return the same sequence of slots, for every shape.
C20_SlotsDeterministic ==
    slotCalls.calls = 2 => slotCalls.first = slotCalls.second

\* C20, amended: two calls of getPhotoSlotsForShape with the same count and
\* the shape TREE return the same sequence of count slots; a call with SANTA,
\* SOCK or ELK returns count slots, each coordinate of which is a fresh random
\* draw in [-4, 4), so two such calls need not return the same sequence.
C20_TreeSlotsDeterministic ==
    /\ slotCalls.calls >= 1 => Len(slotCalls.first) = slotCalls.count
    /\ slotCalls.calls = 2 =>
          /\ Len(slotCalls.second) = slotCalls.count
          /\ slotCalls.shape = "TREE" => slotCalls.first = slotCalls.second
          /\ slotCalls.shape # "TREE" =>
                \A k \in 1..slotCalls.count :
                    \A slot \in {slotCalls.first[k], slotCalls.second[k]} :
                        /\ slot.kind = "xyz"
                        /\ {slot.a, slot.b, slot.c} \subseteq -400..399

\* MaxSlots slots of the TREE have been computed twice
C20_Witness ==
    /\ slotCalls.calls = 2
    /\ slotCalls.shape = "TREE"
    /\ slotCalls.count = MaxSlots
    /\ slotCalls.second[MaxSlots] = treeSlot(MaxSlots - 1, MaxSlots)

-----------------------------------------------------------------------------
(* C21 *)

\* C21: a step that starts in FOCUS and changes the mode or the focus target
\* processes a HandSignal whose gesture is Closed_Fist or Open_Palm, with
\* gesture control enabled; no other hand update, render, upload or toggle of
\* gesture control changes either.
C21_FocusLeftByFistOrPalm ==
    [][(mode = "FOCUS" /\ (mode' # mode \/ focusId' # focusId))
       => /\ handControlEnabled
          /\ emitted' # <<>>
          /\ emitted'[1].gesture \in {"Closed_Fist", "Open_Palm"}]_vars

-----------------------------------------------------------------------------
(* C22 *)

\* C22: a tick on which no hand is detected leaves the counter 0, whatever it
\* was, and publishes isPinching = FALSE; and a tick that latches the pinch
\* after that is the last of PINCH_THRESHOLD_FRAMES consecutive qualifying
\* frames.
C22_NoHandResetsThenFiveConsecutive ==
    [][/\ debounce'.frame = "none"
          => (debounce'.count = 0 /\ ~debounce'.isPinching)
       /\ (~debounce.isPinching /\ debounce'.isPinching)
          => debounce'.window = <<TRUE, TRUE, TRUE, TRUE, TRUE>>]_vars

\* C22, amended: a tick on which no hand is detected leaves the counter 0,
\* whatever it was, and publishes isPinching = FALSE; a tick that latches the
\* pinch after that is a qualifying frame and at least the
\* PINCH_THRESHOLD_FRAMES-th qualifying frame since the counter was 0, the
\* frames before the reset not counting; these frames need not be consecutive.
C22_NoHandResetsThenFiveQualifying ==
    [][/\ debounce'.frame = "none"
          => (debounce'.count = 0 /\ ~debounce'.isPinching)
       /\ (~debounce.isPinching /\ debounce'.isPinching)
          => /\ debounce'.window[Len(debounce'.window)]
             /\ debounce'.qualifying = PINCH_THRESHOLD_FRAMES
       /\ debounce'.qualifying < PINCH_THRESHOLD_FRAMES
          => (debounce.isPinching \/ ~debounce'.isPinching)]_vars

\* a latched counter of 7 has just been reset by a tick without a hand
C22_Witness ==
    /\ debounce.frame = "none"
    /\ debounce.before = 7
    /\ debounce.count = 0
    /\ ~debounce.isPinching
    /\ debounce.window = <<TRUE, TRUE, TRUE, TRUE, FALSE>>

-----------------------------------------------------------------------------
(* C23 *)

\* C23: a HandSignal with active = FALSE is published only by a step that
\* leaves capture disabled; an inference tick that throws or detects no hand publishes
\* no signal with active = FALSE and leaves x, y, pinchX and pinchY of the latest
\* HandSignal as they were.
C23_InactiveOnlyOnDisable ==
    [][/\ (emitted' # <<>> /\ ~emitted'[1].active)
             => ~handControlEnabled'
       /\ (results' # <<>> /\ results'[1].kind \in {"throw", "none"})
             => /\ (emitted' = <<>> \/ emitted'[1].active)
                /\ handStateRef'.x = handStateRef.x
                /\ handStateRef'.y = handStateRef.y
                /\ handStateRef'.pinchX = handStateRef.pinchX
                /\ handStateRef'.pinchY = handStateRef.pinchY]_vars

-----------------------------------------------------------------------------
(* C24 *)

\* the places of the three batches that hold ornament i
placesOf(i) ==
    {p \in {"balls", "stars", "canes"} \X (1..MaxOrnaments + 1) :
        /\ p[2] \in DOMAIN ornaments[p[1]]
        /\ ornaments[p[1]][p[2]] = i}

\* C24: for every count >= 0 the capacities of the three batches sum to count,
\* and every index the loop has passed is written to exactly one batch: balls at
\* i below the first cutoff, stars at i - cutoff1 below the second, canes at
\* i - cutoff2 from there on, each within the capacity of its batch.
C24_BatchesPartitionIndices ==
    ornaments.frames > 0 =>
      LET count == ornaments.count
          c1 == typeCutoff1(count)
          c2 == typeCutoff2(count)
          passed == IF ornaments.frames = 1 THEN ornaments.i ELSE count
      IN /\ 0 <= c1 /\ c1 <= c2 /\ c2 <= count
         /\ Len(ornaments.balls) + Len(ornaments.stars) + Len(ornaments.canes) = count
         /\ ornaments.dropped = {}
         /\ \A i \in 0..(passed - 1) :
               placesOf(i) = {IF i < c1 THEN <<"balls", i + 1>>
                             ELSE IF i < c2 THEN <<"stars", i - c1 + 1>>
                             ELSE <<"canes", i - c2 + 1>>}
         /\ \A i \in passed..(count - 1) : placesOf(i) = {}

\* the loop has gone through 7 ornaments: 3 balls, 2 stars, 2 canes
C24_Witness ==
    /\ ornaments.frames = 1
    /\ ornaments.count = 7
    /\ ornaments.i = 7
    /\ ornaments.balls = <<0, 1, 2>>
    /\ ornaments.stars = <<3, 4>>
    /\ ornaments.canes = <<5, 6>>

-----------------------------------------------------------------------------
(* C25 *)

\* C25: in every reachable state of the mode controller the focus target is
\* non-null exactly when the mode is FOCUS, and a non-null focus target is the
\* id of one of the photos.
C25_FocusIdIffFocus ==
    /\ (focusId # Null) <=> (mode = "FOCUS")
    /\ focusId # Null => focusId \in PhotoIds(photos)

\* in FOCUS on an uploaded photo, after the handler was replaced by a render and
\* gesture control switched off
C25_Witness ==
    /\ mode = "FOCUS"
    /\ focusId \in PhotoIds(photos) \ PhotoIds(DEFAULT_PHOTOS)
    /\ ~handControlEnabled
    /\ onHandUpdateRef.mode = "FOCUS"

-----------------------------------------------------------------------------
(* C26 *)

\* C26: a HandSignal processed while gesture control is disabled, whatever its
\* gesture and isPinching, leaves the mode and the focus target as they were; the
\* stored latest HandSignal and the displayed gesture label become those of the
\* signal, and nothing else of the controller changes.
C26_DisabledHandlerOnlyStores ==
    [][(~handControlEnabled /\ emitted' # <<>>)
          => /\ mode' = mode
             /\ focusId' = focusId
             /\ handStateRef' = emitted'[1]
             /\ gestureDisplay' = emitted'[1].gesture
             /\ UNCHANGED <<photos, handControlEnabled, onHandUpdateRef>>]_vars

\* a latched pinch labelled Closed_Fist was processed in SCATTER while gesture
\* control was disabled
C26_Witness ==
    /\ ~handControlEnabled
    /\ emitted # <<>>
    /\ emitted[1].isPinching
    /\ emitted[1].gesture = "Closed_Fist"
    /\ handStateRef = emitted[1]
    /\ gestureDisplay = "Closed_Fist"
    /\ mode = "SCATTER"
    /\ focusId = Null

====
